---- MODULE Spec2Model ----
(***************************************************************************)
(* Receipt extraction-and-recording pipeline of kakeibo-sample.            *)
(*                                                                         *)
(* Two workflow variants exist in the repository and both are modelled:    *)
(*   "agent"  - src/mastra/workflows/kakeibo-workflow.ts, whose steps      *)
(*              delegate to agents that call receiptOcrTool and            *)
(*              spreadsheetTool;                                           *)
(*   "direct" - src/unnamed/part_002, whose steps call the model and the   *)
(*              filesystem themselves.                                     *)
(*                                                                         *)
(* Text is a sequence of tokens.  A token is one of the three characters   *)
(* the CSV code looks at (comma, double quote, newline) or a chunk of text *)
(* holding none of them.  The Japanese literals of the source are written  *)
(* in ASCII: "fumei" is the source's payment/store default, "mibunrui" the *)
(* category default.                                                       *)
(***************************************************************************)
EXTENDS Integers, Sequences, FiniteSets, TLC

(***************************************************************************)
(* Bounds                                                                  *)
(***************************************************************************)
MaxToolCalls == 2
MaxLen == 3
MaxItems == 2
MaxWrites == 2
MaxStoreOps == 4

(***************************************************************************)
(* Text                                                                    *)
(***************************************************************************)
Comma == ","
Quote == "\""
Newline == "\n"

Chars == {"a", Comma, Quote, Newline}

\* JavaScript undefined for an optional text field
Undefined == <<"<undefined>">>

RECURSIVE replaceQuotes(_)
replaceQuotes(value) ==
  IF value = <<>> THEN <<>>
  ELSE IF Head(value) = Quote
       THEN <<Quote, Quote>> \o replaceQuotes(Tail(value))
       ELSE <<Head(value)>> \o replaceQuotes(Tail(value))

includes(value, ch) == \E i \in 1..Len(value) : value[i] = ch

escapeCSV_NoDoubling(value) ==
  IF includes(value, Comma) \/ includes(value, Quote) \/ includes(value, Newline)
  THEN <<Quote>> \o value \o <<Quote>>
  ELSE value

escapeCSV(value) ==
  IF includes(value, Comma) \/ includes(value, Quote) \/ includes(value, Newline)
  THEN <<Quote>> \o replaceQuotes(value) \o <<Quote>>
  ELSE value

\* v || d on text: undefined and the empty string are falsy
OrDefault(v, d) == IF v = Undefined \/ v = <<>> THEN d ELSE v

\* String(n), as Array.prototype.join renders a number
NumStr(n) == <<ToString(n)>>

RECURSIVE join(_, _)
join(fields, sep) ==
  IF fields = <<>> THEN <<>>
  ELSE IF Len(fields) = 1 THEN fields[1]
  ELSE fields[1] \o sep \o join(Tail(fields), sep)

(***************************************************************************)
(* Standard CSV reading, used to state the round-trip properties.          *)
(***************************************************************************)
RECURSIVE halveQuotes(_)
halveQuotes(s) ==
  IF s = <<>> THEN <<>>
  ELSE IF Len(s) >= 2 /\ s[1] = Quote /\ s[2] = Quote
       THEN <<Quote>> \o halveQuotes(SubSeq(s, 3, Len(s)))
       ELSE <<Head(s)>> \o halveQuotes(Tail(s))

unescapeCSV(field) ==
  IF Len(field) >= 2 /\ field[1] = Quote /\ field[Len(field)] = Quote
  THEN halveQuotes(SubSeq(field, 2, Len(field) - 1))
  ELSE field

\* Splits one row into its field values: a comma outside quotes ends a
\* field, a newline outside quotes ends the row, a quote opening a field
\* starts a quoted field in which "" stands for one quote.
RECURSIVE splitRow(_, _, _, _)
splitRow(s, fields, cur, mode) ==
  IF s = <<>> THEN Append(fields, cur)
  ELSE
    LET c == Head(s) rest == Tail(s) IN
    CASE mode = "start" ->
           IF c = Quote THEN splitRow(rest, fields, cur, "quoted")
           ELSE IF c = Comma THEN splitRow(rest, Append(fields, cur), <<>>, "start")
           ELSE IF c = Newline THEN Append(fields, cur)
           ELSE splitRow(rest, fields, Append(cur, c), "plain")
      [] mode = "plain" ->
           IF c = Comma THEN splitRow(rest, Append(fields, cur), <<>>, "start")
           ELSE IF c = Newline THEN Append(fields, cur)
           ELSE splitRow(rest, fields, Append(cur, c), "plain")
      [] mode = "quoted" ->
           IF c = Quote
           THEN IF rest # <<>> /\ Head(rest) = Quote
                THEN splitRow(Tail(rest), fields, Append(cur, Quote), "quoted")
                ELSE splitRow(rest, fields, cur, "plain")
           ELSE splitRow(rest, fields, Append(cur, c), "quoted")

parseRow(row) == splitRow(row, <<>>, <<>>, "start")

(***************************************************************************)
(* Receipt data                                                            *)
(***************************************************************************)
\* new Date().toISOString()
Now == <<"<now>">>

AllKeys == {"storeName", "date", "items", "subtotal", "tax", "total", "paymentMethod"}

\* JSON objects the model may answer with (the parsed `receiptData`);
\* `keys` are the keys present in the object.
CornerStore ==
  [keys |-> AllKeys \ {"paymentMethod"},
   storeName |-> <<"Corner Store">>,
   date |-> <<"2025-10-28T12:00:00">>,
   items |-> << [name |-> <<"Milk">>, quantity |-> 1, price |-> 150, total |-> 150] >>,
   subtotal |-> 150, tax |-> 15, total |-> 165,
   paymentMethod |-> Undefined]

EmptyObject ==
  [keys |-> {},
   storeName |-> Undefined, date |-> Undefined, items |-> <<>>,
   subtotal |-> 0, tax |-> 0, total |-> 0, paymentMethod |-> Undefined]

Payloads == {CornerStore, EmptyObject}

Has(obj, key) == key \in obj.keys

\* analyzeReceipt's return value / extractReceiptInfo's, without category
normalize(receiptData) ==
  [storeName |-> IF Has(receiptData, "storeName")
                 THEN OrDefault(receiptData.storeName, <<"fumei">>) ELSE <<"fumei">>,
   date |-> IF Has(receiptData, "date") THEN OrDefault(receiptData.date, Now) ELSE Now,
   items |-> IF Has(receiptData, "items") THEN receiptData.items ELSE <<>>,
   subtotal |-> IF Has(receiptData, "subtotal") THEN receiptData.subtotal ELSE 0,
   tax |-> IF Has(receiptData, "tax") THEN receiptData.tax ELSE 0,
   total |-> IF Has(receiptData, "total") THEN receiptData.total ELSE 0,
   paymentMethod |-> IF Has(receiptData, "paymentMethod")
                     THEN receiptData.paymentMethod ELSE Undefined]

\* a ReceiptRecord that is not there yet
NoReceipt ==
  [storeName |-> <<>>, date |-> <<>>, items |-> <<>>, subtotal |-> 0, tax |-> 0,
   total |-> 0, paymentMethod |-> Undefined, category |-> Undefined, present |-> FALSE]

WithCategory(rec, category) ==
  [storeName |-> rec.storeName, date |-> rec.date, items |-> rec.items,
   subtotal |-> rec.subtotal, tax |-> rec.tax, total |-> rec.total,
   paymentMethod |-> rec.paymentMethod, category |-> category, present |-> TRUE]

(***************************************************************************)
(* LedgerWriter                                                            *)
(***************************************************************************)
csvFilePath == "data/kakeibo.csv"

csvHeader ==
  <<"hizuke", Comma, "tenpomei", Comma, "category", Comma, "shouhinmei", Comma,
    "suuryou", Comma, "tanka", Comma, "shoukei", Comma, "shouhizei", Comma,
    "goukeikingaku", Comma, "shiharaihouhou", Newline>>

DefaultCategory == <<"mibunrui">>
DefaultPaymentMethod == <<"fumei">>

buildRow_SwappedTotals(receiptData, item, category, paymentMethod) ==
  join(<< receiptData.date,
          escapeCSV(receiptData.storeName),
          escapeCSV(category),
          escapeCSV(item.name),
          NumStr(item.quantity),
          NumStr(item.price),
          NumStr(item.total),
          NumStr(receiptData.total),
          NumStr(receiptData.tax),
          escapeCSV(paymentMethod) >>, <<Comma>>) \o <<Newline>>

buildRow(receiptData, item, category, paymentMethod) ==
  join(<< receiptData.date,
          escapeCSV(receiptData.storeName),
          escapeCSV(category),
          escapeCSV(item.name),
          NumStr(item.quantity),
          NumStr(item.price),
          NumStr(item.total),
          NumStr(receiptData.tax),
          NumStr(receiptData.total),
          escapeCSV(paymentMethod) >>, <<Comma>>) \o <<Newline>>

\* A filesystem call of one invocation that throws: none, mkdirSync,
\* writeFileSync, or the k-th appendFileSync.
NoFault == [op |-> "none", k |-> 0]
FaultsFor(n) ==
  {NoFault, [op |-> "mkdir", k |-> 0], [op |-> "writeFile", k |-> 0]}
    \cup {[op |-> "append", k |-> k] : k \in 1..n}

Failure(errorMessage) ==
  [success |-> FALSE, message |-> <<"kiroku ni shippai shimashita: ", errorMessage>>,
   filePath |-> "", recordedCount |-> 0]

Success(recordedCount) ==
  [success |-> TRUE,
   message |-> <<ToString(recordedCount), "ken no shouhin jouhou wo kiroku shimashita">>,
   filePath |-> csvFilePath, recordedCount |-> recordedCount]

appendFileSync_Overwrites(led, row) == <<row>>

\* fs.appendFileSync(csvFilePath, row), line 92
appendFileSync(led, row) == Append(led, row)

ensureHeader_Always(fileE, led) == led \o <<csvHeader>>

\* lines 65-70: the file's content once the header check is through
ensureHeader(fileE, led) == IF fileE THEN led ELSE <<csvHeader>>

RECURSIVE appendRows_DropsLast(_, _, _, _, _, _, _)
appendRows_DropsLast(receiptData, category, paymentMethod, i, led, written, fault) ==
  IF i >= Len(receiptData.items)
  THEN [thrown |-> FALSE, ledger |-> led, written |-> written]
  ELSE IF fault.op = "append" /\ fault.k = i
  THEN [thrown |-> TRUE, ledger |-> led, written |-> written]
  ELSE LET row == buildRow(receiptData, receiptData.items[i], category, paymentMethod)
       IN appendRows_DropsLast(receiptData, category, paymentMethod, i + 1,
                               appendFileSync(led, row), Append(written, row), fault)

\* the for loop of recordToSpreadsheet from item i on; `written` are the rows
\* appended so far by this invocation
RECURSIVE appendRows(_, _, _, _, _, _, _)
appendRows(receiptData, category, paymentMethod, i, led, written, fault) ==
  IF i > Len(receiptData.items)
  THEN [thrown |-> FALSE, ledger |-> led, written |-> written]
  ELSE IF fault.op = "append" /\ fault.k = i
  THEN [thrown |-> TRUE, ledger |-> led, written |-> written]
  ELSE LET row == buildRow(receiptData, receiptData.items[i], category, paymentMethod)
       IN appendRows(receiptData, category, paymentMethod, i + 1,
                     appendFileSync(led, row), Append(written, row), fault)

recordToSpreadsheet_Uncaught(receiptData, dirE, fileE, led, fault) ==
  IF ~dirE /\ fault.op = "mkdir"
  THEN [result |-> Failure("mkdir"), thrown |-> FALSE,
        dirExists |-> dirE, fileExists |-> fileE, ledger |-> led, written |-> <<>>]
  ELSE IF ~fileE /\ fault.op = "writeFile"
  THEN [result |-> Failure("writeFile"), thrown |-> FALSE,
        dirExists |-> TRUE, fileExists |-> fileE, ledger |-> led, written |-> <<>>]
  ELSE
    LET led1 == ensureHeader(fileE, led)
        category == OrDefault(receiptData.category, DefaultCategory)
        paymentMethod == OrDefault(receiptData.paymentMethod, DefaultPaymentMethod)
        loop == appendRows(receiptData, category, paymentMethod, 1, led1, <<>>, fault)
    IN [result |-> IF loop.thrown THEN Failure("append")
                   ELSE Success(Len(loop.written)),
        thrown |-> loop.thrown,
        dirExists |-> TRUE, fileExists |-> TRUE,
        ledger |-> loop.ledger, written |-> loop.written]

\* One invocation on the filesystem state (dirE, fileE, led).  `thrown` says
\* whether an exception left the function.
recordToSpreadsheet(receiptData, dirE, fileE, led, fault) ==
  IF ~dirE /\ fault.op = "mkdir"
  THEN [result |-> Failure("mkdir"), thrown |-> FALSE,
        dirExists |-> dirE, fileExists |-> fileE, ledger |-> led, written |-> <<>>]
  ELSE IF ~fileE /\ fault.op = "writeFile"
  THEN [result |-> Failure("writeFile"), thrown |-> FALSE,
        dirExists |-> TRUE, fileExists |-> fileE, ledger |-> led, written |-> <<>>]
  ELSE
    LET led1 == ensureHeader(fileE, led)
        category == OrDefault(receiptData.category, DefaultCategory)
        paymentMethod == OrDefault(receiptData.paymentMethod, DefaultPaymentMethod)
        loop == appendRows(receiptData, category, paymentMethod, 1, led1, <<>>, fault)
    IN [result |-> IF loop.thrown THEN Failure("append")
                   ELSE Success(Len(loop.written)),
        thrown |-> FALSE,
        dirExists |-> TRUE, fileExists |-> TRUE,
        ledger |-> loop.ledger, written |-> loop.written]

(***************************************************************************)
(* Image references and the run correlation store                          *)
(***************************************************************************)
RunIds == {"r1", "r2"}

DataA == "data:image/png;base64,AAAA"
DataB == "data:image/png;base64,BBBB"
HttpUrl == "https://example.com/receipt.png"

\* references a caller may submit
Refs == {"", DataA, HttpUrl}

\* values the agent may pass as the tool's imageUrl argument
Args == {"", DataB}

\* Map.get of a key that is not in the map
NoEntry == "<no entry>"

startsWithData(ref) == ref \in {DataA, DataB}
startsWithHttp(ref) == ref \in {HttpUrl}

\* imageUrlToBase64 of receipt-ocr-tool.ts: every reference passes
imageUrlToBase64(ref) == [thrown |-> FALSE, url |-> ref]

\* imageUrlToBase64 of the direct workflow: remote URLs are rejected
imageUrlToBase64Direct(ref) ==
  IF startsWithData(ref) THEN [thrown |-> FALSE, url |-> ref]
  ELSE IF startsWithHttp(ref) THEN [thrown |-> TRUE, url |-> ref]
  ELSE [thrown |-> FALSE, url |-> ref]

setImageUrlForRun_KeepFirst(storage, runId, ref) ==
  IF storage[runId] = NoEntry THEN [storage EXCEPT ![runId] = ref] ELSE storage

setImageUrlForRun(storage, runId, ref) == [storage EXCEPT ![runId] = ref]

clearImageUrlForRun_All(storage, runId) == [id \in DOMAIN storage |-> NoEntry]

clearImageUrlForRun(storage, runId) == [storage EXCEPT ![runId] = NoEntry]

\* Lines 223-242 of receiptOcrTool.execute: the reference the tool goes on
\* with and the store it leaves, for the argument `arg` the agent passed.
resolveImageUrl_NoClear(storage, runId, hasRunId, arg) ==
  IF arg = ""
  THEN IF hasRunId
       THEN LET storedUrl == storage[runId] IN
            IF storedUrl # NoEntry /\ storedUrl # ""
            THEN [imageUrl |-> storedUrl, storage |-> storage, found |-> TRUE]
            ELSE [imageUrl |-> arg, storage |-> storage, found |-> FALSE]
       ELSE [imageUrl |-> arg, storage |-> storage, found |-> FALSE]
  ELSE [imageUrl |-> arg, storage |-> storage, found |-> FALSE]

resolveImageUrl(storage, runId, hasRunId, arg) ==
  IF arg = ""
  THEN IF hasRunId
       THEN LET storedUrl == storage[runId] IN
            IF storedUrl # NoEntry /\ storedUrl # ""
            THEN [imageUrl |-> storedUrl,
                  storage |-> clearImageUrlForRun(storage, runId), found |-> TRUE]
            ELSE [imageUrl |-> arg, storage |-> storage, found |-> FALSE]
       ELSE [imageUrl |-> arg, storage |-> storage, found |-> FALSE]
  ELSE [imageUrl |-> arg, storage |-> storage, found |-> FALSE]

(***************************************************************************)
(* State                                                                   *)
(***************************************************************************)
VARIABLES
  imageUrlStorage,  \* the process-wide Map runId -> image reference
  apiKey,           \* process.env.OPENAI_API_KEY is set
  variant,          \* the workflow variant registered as kakeiboWorkflow
  dirExists,        \* data/ exists
  fileExists,       \* data/kakeibo.csv exists
  ledger,           \* content of data/kakeibo.csv, one element per write call
  pc,               \* where each run is
  inputData,        \* the workflow input {imageUrl, category} of the running first step
  sent,             \* the image reference of the run's request in flight
  toolCalls,        \* receiptOcrTool calls of the running agent.generate
  toolResults,      \* tool results of the running agent.generate
  timer,            \* the 60 s timer of the run's extraction call is armed
  aborted,          \* controller.abort() was called for the run's call in flight
  response,         \* status of the response whose headers arrived
  requests,         \* extraction requests the run has sent to the model
  receipt,          \* output of the first step, input of the running second step
  result,           \* the run's final {success, message, filePath, recordedCount}
  error,            \* stage and kind of the failure that ended the run
  writerCalls,      \* recordToSpreadsheet invocations of the run
  appended,         \* the rows the run's writer appended
  csvPc,            \* position of a caller using the CSV functions on their own
  csvIn,            \* the text it passes to escapeCSV
  csvOut,           \* the text escapeCSV returned
  csvRec,           \* the receipt it passes to spreadsheetTool
  csvRes,           \* the result spreadsheetTool returned and the rows it wrote
  csvWrites,        \* its spreadsheetTool calls so far
  stOp,             \* the last call made on the store by callers using it on its own
  stSets,           \* the references their setImageUrlForRun calls stored per run, in order
  stOps             \* their calls so far

storeVars == <<imageUrlStorage>>
envVars == <<apiKey, variant>>
fsVars == <<dirExists, fileExists, ledger>>
csvVars == <<csvPc, csvIn, csvOut, csvRec, csvRes, csvWrites>>
stVars == <<stOp, stSets, stOps>>
vars == <<imageUrlStorage, apiKey, variant, dirExists, fileExists, ledger, pc,
          inputData, sent, toolCalls, toolResults, timer, aborted, response, requests,
          receipt, result, error, writerCalls, appended, csvPc, csvIn, csvOut, csvRec,
          csvRes, csvWrites, stOp, stSets, stOps>>

NoError == [stage |-> "none", kind |-> "none"]
NoResult == [success |-> FALSE, message |-> <<>>, filePath |-> "", recordedCount |-> 0,
             present |-> FALSE]
NoInput == [imageUrl |-> "", category |-> Undefined]
NoRequest == "<no request>"

InitRuns ==
  /\ pc = [r \in RunIds |-> "created"]
  /\ inputData = [r \in RunIds |-> NoInput]
  /\ sent = [r \in RunIds |-> NoRequest]
  /\ toolCalls = [r \in RunIds |-> 0]
  /\ toolResults = [r \in RunIds |-> <<>>]
  /\ timer = [r \in RunIds |-> FALSE]
  /\ aborted = [r \in RunIds |-> FALSE]
  /\ response = [r \in RunIds |-> "none"]
  /\ requests = [r \in RunIds |-> 0]
  /\ receipt = [r \in RunIds |-> NoReceipt]
  /\ result = [r \in RunIds |-> NoResult]
  /\ error = [r \in RunIds |-> NoError]
  /\ writerCalls = [r \in RunIds |-> 0]
  /\ appended = [r \in RunIds |-> <<>>]

NoWrite ==
  [result |-> NoResult, thrown |-> FALSE, written |-> <<>>, fault |-> NoFault,
   dirBefore |-> FALSE, fileBefore |-> FALSE, before |-> <<>>]

InitCsvIdle ==
  /\ csvPc = "idle"
  /\ csvIn = <<>>
  /\ csvOut = <<>>
  /\ csvRec = NoReceipt
  /\ csvRes = NoWrite
  /\ csvWrites = 0

NoStoreOp ==
  [op |-> "none", runId |-> "", arg |-> "", hasRunId |-> FALSE, value |-> "",
   found |-> FALSE, before |-> NoEntry]

InitStoreIdle ==
  /\ stOp = NoStoreOp
  /\ stSets = [r \in RunIds |-> <<>>]
  /\ stOps = 0

\* a fresh process in a working directory without data/
Init ==
  /\ imageUrlStorage = [r \in RunIds |-> NoEntry]
  /\ apiKey \in BOOLEAN
  /\ variant \in {"agent", "direct"}
  /\ dirExists = FALSE
  /\ fileExists = FALSE
  /\ ledger = <<>>
  /\ InitRuns
  /\ InitCsvIdle
  /\ InitStoreIdle

(***************************************************************************)
(* Starting a run                                                          *)
(***************************************************************************)
Categories == {Undefined, <<"groceries">>}

\* route.ts POST, lines 25-44: the chat route stores the uploaded image for
\* the run and starts the workflow with category "mibunrui"
POST(r, extractedImageUrl) ==
  /\ pc[r] = "created"
  /\ imageUrlStorage' = IF extractedImageUrl # ""
                        THEN setImageUrlForRun(imageUrlStorage, r, extractedImageUrl)
                        ELSE imageUrlStorage
  /\ inputData' = [inputData EXCEPT ![r] =
                     [imageUrl |-> extractedImageUrl, category |-> DefaultCategory]]
  /\ pc' = [pc EXCEPT ![r] = "started"]
  /\ UNCHANGED <<envVars, fsVars, sent, toolCalls, toolResults, timer, aborted,
                 response, requests, receipt, result, error, writerCalls, appended,
                 csvVars, stVars>>

\* the workflow started with its input schema {imageUrl, category?} by
\* another caller than the chat route
StartRun(r, ref, category) ==
  /\ pc[r] = "created"
  /\ inputData' = [inputData EXCEPT ![r] = [imageUrl |-> ref, category |-> category]]
  /\ pc' = [pc EXCEPT ![r] = "started"]
  /\ UNCHANGED <<storeVars, envVars, fsVars, sent, toolCalls, toolResults, timer,
                 aborted, response, requests, receipt, result, error, writerCalls,
                 appended, csvVars, stVars>>

(***************************************************************************)
(* Extraction                                                              *)
(***************************************************************************)
FailStep1_Continue(r, stage, kind) ==
  /\ pc' = [pc EXCEPT ![r] = "extracted"]
  /\ error' = [error EXCEPT ![r] = [stage |-> stage, kind |-> kind]]
  /\ inputData' = [inputData EXCEPT ![r] = NoInput]
  /\ toolCalls' = [toolCalls EXCEPT ![r] = 0]
  /\ toolResults' = [toolResults EXCEPT ![r] = <<>>]
  /\ sent' = [sent EXCEPT ![r] = NoRequest]
  /\ timer' = [timer EXCEPT ![r] = FALSE]
  /\ aborted' = [aborted EXCEPT ![r] = FALSE]
  /\ response' = [response EXCEPT ![r] = "none"]

\* The first step throws: the workflow ends as failed.  The step's locals
\* are gone.
FailStep1(r, stage, kind) ==
  /\ pc' = [pc EXCEPT ![r] = "failed"]
  /\ error' = [error EXCEPT ![r] = [stage |-> stage, kind |-> kind]]
  /\ inputData' = [inputData EXCEPT ![r] = NoInput]
  /\ toolCalls' = [toolCalls EXCEPT ![r] = 0]
  /\ toolResults' = [toolResults EXCEPT ![r] = <<>>]
  /\ sent' = [sent EXCEPT ![r] = NoRequest]
  /\ timer' = [timer EXCEPT ![r] = FALSE]
  /\ aborted' = [aborted EXCEPT ![r] = FALSE]
  /\ response' = [response EXCEPT ![r] = "none"]

\* kakeibo-workflow.ts lines 33-60: the step stores its input image for the
\* run and hands over to receiptOcrAgent
runReceiptOcrAgent(r) ==
  /\ pc[r] = "started"
  /\ variant = "agent"
  /\ imageUrlStorage' = setImageUrlForRun(imageUrlStorage, r, inputData[r].imageUrl)
  /\ pc' = [pc EXCEPT ![r] = "agent"]
  /\ UNCHANGED <<envVars, fsVars, inputData, sent, toolCalls, toolResults, timer,
                 aborted, response, requests, receipt, result, error, writerCalls,
                 appended, csvVars, stVars>>

\* The part of an extraction up to the fetch call, shared by analyzeReceipt
\* (receipt-ocr-tool.ts lines 56-139) and extractReceiptInfo (part_002 lines
\* 55-117): the API key check, the image conversion, then the request is
\* sent and the timer armed.  `calls` is the agent's tool call count after
\* this call.
BeginExtraction(r, conv, calls) ==
  IF ~apiKey
  THEN /\ FailStep1(r, "extract", "MissingApiKey")
       /\ UNCHANGED requests
  ELSE IF conv.thrown
  THEN /\ FailStep1(r, "resolve", "InvalidReferenceKind")
       /\ UNCHANGED requests
  ELSE /\ requests' = [requests EXCEPT ![r] = @ + 1]
       /\ sent' = [sent EXCEPT ![r] = conv.url]
       /\ timer' = [timer EXCEPT ![r] = TRUE]
       /\ aborted' = [aborted EXCEPT ![r] = FALSE]
       /\ toolCalls' = [toolCalls EXCEPT ![r] = calls]
       /\ pc' = [pc EXCEPT ![r] = "fetch"]
       /\ UNCHANGED <<error, inputData, toolResults, response>>

receiptOcrTool_AlwaysClears(r, arg, hasRunId) ==
  /\ pc[r] = "agent"
  /\ toolCalls[r] < MaxToolCalls
  /\ LET res == resolveImageUrl(imageUrlStorage, r, hasRunId, arg) IN
       /\ imageUrlStorage' = clearImageUrlForRun(res.storage, r)
       /\ BeginExtraction(r, imageUrlToBase64(res.imageUrl), toolCalls[r] + 1)
  /\ UNCHANGED <<envVars, fsVars, receipt, result, writerCalls, appended, csvVars,
                 stVars>>

\* receiptOcrTool.execute, lines 210-244, called by the agent with the
\* argument `arg`; hasRunId says whether params carries the run identifier
receiptOcrTool(r, arg, hasRunId) ==
  /\ pc[r] = "agent"
  /\ toolCalls[r] < MaxToolCalls
  /\ LET res == resolveImageUrl(imageUrlStorage, r, hasRunId, arg) IN
       /\ imageUrlStorage' = res.storage
       /\ BeginExtraction(r, imageUrlToBase64(res.imageUrl), toolCalls[r] + 1)
  /\ UNCHANGED <<envVars, fsVars, receipt, result, writerCalls, appended, csvVars, stVars>>

\* extractReceiptInfo.execute of the direct workflow, part_002 lines 50-117
extractReceiptInfo(r) ==
  /\ pc[r] = "started"
  /\ variant = "direct"
  /\ BeginExtraction(r, imageUrlToBase64Direct(inputData[r].imageUrl), 0)
  /\ UNCHANGED <<storeVars, envVars, fsVars, receipt, result, writerCalls, appended,
                 csvVars, stVars>>

\* the setTimeout callback: controller.abort()
TimerFires(r) ==
  /\ pc[r] = "fetch"
  /\ timer[r]
  /\ aborted' = [aborted EXCEPT ![r] = TRUE]
  /\ timer' = [timer EXCEPT ![r] = FALSE]
  /\ UNCHANGED <<storeVars, envVars, fsVars, pc, inputData, sent, toolCalls,
                 toolResults, response, requests, receipt, result, error, writerCalls,
                 appended, csvVars, stVars>>

\* the inner catch, lines 171-178 / part_002 140-146: what is thrown on for
\* the error `name` caught
catchFetchError_Rethrow(name) == name

catchFetchError(name) == IF name = "AbortError" THEN "TimeoutError" ELSE name

FetchRejects_Retries(r) ==
  /\ pc[r] = "fetch"
  /\ requests[r] < MaxToolCalls
  /\ requests' = [requests EXCEPT ![r] = @ + 1]
  /\ timer' = [timer EXCEPT ![r] = TRUE]
  /\ aborted' = [aborted EXCEPT ![r] = FALSE]
  /\ UNCHANGED <<storeVars, envVars, fsVars, pc, inputData, sent, toolCalls,
                 toolResults, response, receipt, result, error, writerCalls, appended,
                 csvVars, stVars>>

\* the fetch promise rejects: with AbortError once the call was aborted,
\* with a network failure otherwise
FetchRejects(r) ==
  /\ pc[r] = "fetch"
  /\ FailStep1(r, "extract",
               catchFetchError(IF aborted[r] THEN "AbortError" ELSE "NetworkError"))
  /\ UNCHANGED <<storeVars, envVars, fsVars, requests, receipt, result, writerCalls,
                 appended, csvVars, stVars>>

\* the fetch promise resolves (response headers arrived): clearTimeout
FetchResolves(r, ok) ==
  /\ pc[r] = "fetch"
  /\ ~aborted[r]
  /\ timer' = [timer EXCEPT ![r] = FALSE]
  /\ sent' = [sent EXCEPT ![r] = NoRequest]
  /\ response' = [response EXCEPT ![r] = IF ok THEN "ok" ELSE "notOk"]
  /\ pc' = [pc EXCEPT ![r] = "body"]
  /\ UNCHANGED <<storeVars, envVars, fsVars, inputData, toolCalls, toolResults,
                 aborted, requests, receipt, result, error, writerCalls, appended,
                 csvVars, stVars>>

\* the bodies a response may carry
Bodies ==
  {[kind |-> k, payload |-> EmptyObject] :
     k \in {"text", "errorJson", "noChoices", "contentNotJson"}}
    \cup {[kind |-> "json", payload |-> p] : p \in Payloads}

readBody_SwallowsParse(wf, status, body) ==
  IF status = "notOk"
  THEN IF wf = "direct" /\ body.kind = "text"
       THEN [thrown |-> TRUE, kind |-> "ParseError", record |-> normalize(EmptyObject)]
       ELSE [thrown |-> TRUE, kind |-> "UpstreamError", record |-> normalize(EmptyObject)]
  ELSE CASE body.kind = "text" ->
              [thrown |-> TRUE, kind |-> "ParseError", record |-> normalize(EmptyObject)]
         [] body.kind \in {"errorJson", "noChoices"} ->
              [thrown |-> TRUE, kind |-> "TypeError", record |-> normalize(EmptyObject)]
         [] body.kind = "contentNotJson" ->
              [thrown |-> FALSE, kind |-> "none", record |-> normalize(EmptyObject)]
         [] OTHER ->
              [thrown |-> FALSE, kind |-> "none", record |-> normalize(body.payload)]

\* lines 145-170 / part_002 121-139: reading and parsing the body of a
\* response with status `status`
readBody(wf, status, body) ==
  IF status = "notOk"
  THEN IF wf = "direct" /\ body.kind = "text"
       THEN [thrown |-> TRUE, kind |-> "ParseError", record |-> normalize(EmptyObject)]
       ELSE [thrown |-> TRUE, kind |-> "UpstreamError", record |-> normalize(EmptyObject)]
  ELSE CASE body.kind = "text" ->
              [thrown |-> TRUE, kind |-> "ParseError", record |-> normalize(EmptyObject)]
         [] body.kind \in {"errorJson", "noChoices"} ->
              [thrown |-> TRUE, kind |-> "TypeError", record |-> normalize(EmptyObject)]
         [] body.kind = "contentNotJson" ->
              [thrown |-> TRUE, kind |-> "ParseError", record |-> normalize(EmptyObject)]
         [] OTHER ->
              [thrown |-> FALSE, kind |-> "none", record |-> normalize(body.payload)]

\* the step output built from the first tool result, kakeibo-workflow.ts
\* lines 72-91
stepOutput(ocrResult, category) ==
  WithCategory([ocrResult EXCEPT !.storeName = OrDefault(@, <<"fumei">>),
                                 !.date = OrDefault(@, Now)], category)

\* the first step returns `rec`; its locals are gone
EndStep1(r, rec) ==
  /\ receipt' = [receipt EXCEPT ![r] = rec]
  /\ pc' = [pc EXCEPT ![r] = "extracted"]
  /\ inputData' = [inputData EXCEPT ![r] = NoInput]
  /\ toolCalls' = [toolCalls EXCEPT ![r] = 0]
  /\ toolResults' = [toolResults EXCEPT ![r] = <<>>]
  /\ response' = [response EXCEPT ![r] = "none"]

\* the body arrives and is parsed; an error is thrown on through the inner
\* catch, a record is returned to the agent or becomes the step's output
ReadBody(r, body) ==
  /\ pc[r] = "body"
  /\ LET out == readBody(variant, response[r], body) IN
       IF out.thrown
       THEN /\ FailStep1(r, "extract", catchFetchError(out.kind))
            /\ UNCHANGED receipt
       ELSE IF variant = "agent"
       THEN /\ toolResults' = [toolResults EXCEPT ![r] = Append(@, out.record)]
            /\ pc' = [pc EXCEPT ![r] = "agent"]
            /\ response' = [response EXCEPT ![r] = "none"]
            /\ UNCHANGED <<receipt, error, inputData, toolCalls, sent, timer, aborted>>
       ELSE /\ EndStep1(r, WithCategory(out.record, inputData[r].category))
            /\ UNCHANGED <<error, sent, timer, aborted>>
  /\ UNCHANGED <<storeVars, envVars, fsVars, requests, result, writerCalls, appended,
                 csvVars, stVars>>

\* agent.generate returns, kakeibo-workflow.ts lines 62-91
AgentReturns(r) ==
  /\ pc[r] = "agent"
  /\ IF Len(toolResults[r]) = 0
     THEN /\ FailStep1(r, "extract", "NoToolResult")
          /\ UNCHANGED receipt
     ELSE /\ EndStep1(r, stepOutput(toolResults[r][1], inputData[r].category))
          /\ UNCHANGED <<error, sent, timer, aborted>>
  /\ UNCHANGED <<storeVars, envVars, fsVars, requests, result, writerCalls, appended,
                 csvVars, stVars>>

(***************************************************************************)
(* Recording                                                               *)
(***************************************************************************)
\* the receipt as the step's message hands it to csvWriterAgent,
\* kakeibo-workflow.ts lines 118-130
messageRecord(inputRecord) ==
  [inputRecord EXCEPT !.category = OrDefault(@, DefaultCategory),
                      !.paymentMethod = OrDefault(@, DefaultPaymentMethod)]

stepResult_Defaulted(csvResult) ==
  [success |-> csvResult.success,
   message |-> <<"CSV kiroku kanryou">>,
   filePath |-> csvResult.filePath,
   recordedCount |-> csvResult.recordedCount,
   present |-> TRUE]

\* the step result built from the tool result, kakeibo-workflow.ts lines 150-155
stepResult(csvResult) ==
  [success |-> csvResult.success,
   message |-> IF csvResult.message = <<>> THEN <<"CSV kiroku kanryou">>
               ELSE csvResult.message,
   filePath |-> csvResult.filePath,
   recordedCount |-> csvResult.recordedCount,
   present |-> TRUE]

\* the step result of the direct workflow is the value returned
directResult(csvResult) ==
  [success |-> csvResult.success, message |-> csvResult.message,
   filePath |-> csvResult.filePath, recordedCount |-> csvResult.recordedCount,
   present |-> TRUE]

FailStep2_Restart(r, kind) ==
  /\ pc' = [pc EXCEPT ![r] = "started"]
  /\ error' = error
  /\ receipt' = [receipt EXCEPT ![r] = NoReceipt]

\* the second step throws
FailStep2(r, kind) ==
  /\ pc' = [pc EXCEPT ![r] = "failed"]
  /\ error' = [error EXCEPT ![r] = [stage |-> "record", kind |-> kind]]
  /\ receipt' = [receipt EXCEPT ![r] = NoReceipt]

Recorded_WritesTwice(r, w, res) ==
  /\ dirExists' = w.dirExists
  /\ fileExists' = w.fileExists
  /\ ledger' = w.ledger \o w.written
  /\ writerCalls' = [writerCalls EXCEPT ![r] = @ + 1]
  /\ appended' = [appended EXCEPT ![r] = @ \o w.written]
  /\ result' = [result EXCEPT ![r] = res]
  /\ IF res.success
     THEN /\ pc' = [pc EXCEPT ![r] = "recorded"]
          /\ receipt' = [receipt EXCEPT ![r] = NoReceipt]
          /\ UNCHANGED error
     ELSE FailStep2(r, "FilesystemError")

\* what a writer invocation `w` of run r leaves behind, and the end of the
\* second step with result `res`
Recorded(r, w, res) ==
  /\ dirExists' = w.dirExists
  /\ fileExists' = w.fileExists
  /\ ledger' = w.ledger
  /\ writerCalls' = [writerCalls EXCEPT ![r] = @ + 1]
  /\ appended' = [appended EXCEPT ![r] = @ \o w.written]
  /\ result' = [result EXCEPT ![r] = res]
  /\ IF res.success
     THEN /\ pc' = [pc EXCEPT ![r] = "recorded"]
          /\ receipt' = [receipt EXCEPT ![r] = NoReceipt]
          /\ UNCHANGED error
     ELSE FailStep2(r, "FilesystemError")

\* runCsvWriterAgent.execute, kakeibo-workflow.ts lines 106-156: the agent
\* either calls spreadsheetTool once with the receipt of its message, or
\* returns without a tool result
runCsvWriterAgent(r, callsTool, fault) ==
  /\ pc[r] = "extracted"
  /\ variant = "agent"
  /\ IF callsTool
     THEN LET w == recordToSpreadsheet(messageRecord(receipt[r]), dirExists,
                                       fileExists, ledger, fault)
          IN Recorded(r, w, stepResult(w.result))
     ELSE /\ fault = NoFault
          /\ FailStep2(r, "NoToolResult")
          /\ UNCHANGED <<fsVars, writerCalls, appended, result>>
  /\ UNCHANGED <<storeVars, envVars, inputData, sent, toolCalls, toolResults, timer,
                 aborted, response, requests, csvVars, stVars>>

\* recordToSpreadsheet.execute of the direct workflow, part_002 lines 161-223
recordToSpreadsheetStep(r, fault) ==
  /\ pc[r] = "extracted"
  /\ variant = "direct"
  /\ LET w == recordToSpreadsheet(receipt[r], dirExists, fileExists, ledger, fault)
     IN Recorded(r, w, directResult(w.result))
  /\ UNCHANGED <<storeVars, envVars, inputData, sent, toolCalls, toolResults, timer,
                 aborted, response, requests, csvVars, stVars>>

(***************************************************************************)
(* Specification of the pipeline                                           *)
(***************************************************************************)
Next ==
  \/ \E r \in RunIds, ref \in Refs : POST(r, ref)
  \/ \E r \in RunIds, ref \in Refs, category \in Categories : StartRun(r, ref, category)
  \/ \E r \in RunIds : runReceiptOcrAgent(r)
  \/ \E r \in RunIds, arg \in Args, hasRunId \in BOOLEAN : receiptOcrTool(r, arg, hasRunId)
  \/ \E r \in RunIds : extractReceiptInfo(r)
  \/ \E r \in RunIds : TimerFires(r)
  \/ \E r \in RunIds : FetchRejects(r)
  \/ \E r \in RunIds, ok \in BOOLEAN : FetchResolves(r, ok)
  \/ \E r \in RunIds, body \in Bodies : ReadBody(r, body)
  \/ \E r \in RunIds : AgentReturns(r)
  \/ \E r \in RunIds, callsTool \in BOOLEAN :
       \E fault \in FaultsFor(Len(receipt[r].items)) : runCsvWriterAgent(r, callsTool, fault)
  \/ \E r \in RunIds :
       \E fault \in FaultsFor(Len(receipt[r].items)) : recordToSpreadsheetStep(r, fault)

Spec == Init /\ [][Next]_vars

(***************************************************************************)
(* The CSV functions called on their own: escapeCSV on any text, and       *)
(* spreadsheetTool on any receipt and any state of the data directory.     *)
(***************************************************************************)
RECURSIVE TextsOfLen(_)
TextsOfLen(n) ==
  IF n = 0 THEN {<<>>}
  ELSE {Append(t, c) : t \in TextsOfLen(n - 1), c \in Chars}

Texts == UNION {TextsOfLen(n) : n \in 0..MaxLen}

Dates == {<<"2025-10-28T12:00:00">>, <<"Oct 28", Comma, " 2025">>}

\* a receipt with n items whose texts are `text`
ReceiptOf(text, n, date, category, usePayment) ==
  [storeName |-> text,
   date |-> date,
   items |-> [i \in 1..n |-> [name |-> text, quantity |-> i, price |-> 150,
                              total |-> 150 * i]],
   subtotal |-> 150, tax |-> 15, total |-> 165,
   paymentMethod |-> IF usePayment THEN text ELSE Undefined,
   category |-> category,
   present |-> TRUE]

InitCsv ==
  /\ imageUrlStorage = [r \in RunIds |-> NoEntry]
  /\ apiKey = TRUE
  /\ variant = "agent"
  /\ \/ dirExists = FALSE /\ fileExists = FALSE /\ ledger = <<>>
     \/ dirExists = TRUE /\ fileExists = FALSE /\ ledger = <<>>
     \/ dirExists = TRUE /\ fileExists = TRUE /\ ledger = <<csvHeader>>
  /\ InitRuns
  /\ csvPc = "input"
  /\ csvIn \in Texts
  /\ csvOut = <<>>
  /\ \E n \in 0..MaxItems, date \in Dates, category \in Categories,
        usePayment \in BOOLEAN :
       csvRec = ReceiptOf(csvIn, n, date, category, usePayment)
  /\ csvRes = NoWrite
  /\ csvWrites = 0
  /\ InitStoreIdle

\* spreadsheet-tool.ts lines 112-117 applied to csvIn
EscapeField ==
  /\ csvPc = "input"
  /\ csvOut' = escapeCSV(csvIn)
  /\ csvPc' = "escaped"
  /\ UNCHANGED <<storeVars, envVars, fsVars, pc, inputData, sent, toolCalls,
                 toolResults, timer, aborted, response, requests, receipt, result,
                 error, writerCalls, appended, csvIn, csvRec, csvRes, csvWrites, stVars>>

spreadsheetTool_RollsBack(fault) ==
  /\ csvPc \in {"escaped", "written"}
  /\ csvWrites < MaxWrites
  /\ LET w == recordToSpreadsheet(csvRec, dirExists, fileExists, ledger, fault) IN
       /\ dirExists' = w.dirExists
       /\ fileExists' = w.fileExists
       /\ ledger' = IF w.result.success THEN w.ledger
                     ELSE SubSeq(w.ledger, 1, Len(w.ledger) - Len(w.written))
       /\ csvRes' = [result |-> directResult(w.result), thrown |-> w.thrown,
                     written |-> w.written, fault |-> fault,
                     dirBefore |-> dirExists, fileBefore |-> fileExists,
                     before |-> ledger]
  /\ csvWrites' = csvWrites + 1
  /\ csvPc' = "written"
  /\ UNCHANGED <<storeVars, envVars, pc, inputData, sent, toolCalls, toolResults,
                 timer, aborted, response, requests, receipt, result, error,
                 writerCalls, appended, csvIn, csvOut, csvRec, stVars>>

\* spreadsheetTool.execute, spreadsheet-tool.ts lines 32-34, on csvRec
spreadsheetTool(fault) ==
  /\ csvPc \in {"escaped", "written"}
  /\ csvWrites < MaxWrites
  /\ LET w == recordToSpreadsheet(csvRec, dirExists, fileExists, ledger, fault) IN
       /\ dirExists' = w.dirExists
       /\ fileExists' = w.fileExists
       /\ ledger' = w.ledger
       /\ csvRes' = [result |-> directResult(w.result), thrown |-> w.thrown,
                     written |-> w.written, fault |-> fault,
                     dirBefore |-> dirExists, fileBefore |-> fileExists,
                     before |-> ledger]
  /\ csvWrites' = csvWrites + 1
  /\ csvPc' = "written"
  /\ UNCHANGED <<storeVars, envVars, pc, inputData, sent, toolCalls, toolResults,
                 timer, aborted, response, requests, receipt, result, error,
                 writerCalls, appended, csvIn, csvOut, csvRec, stVars>>

NextCsv ==
  \/ EscapeField
  \/ \E fault \in FaultsFor(Len(csvRec.items)) : spreadsheetTool(fault)

SpecCsv == InitCsv /\ [][NextCsv]_vars

(***************************************************************************)
(* The store functions called on their own: the chat routes and the        *)
(* workflow step call setImageUrlForRun, tool calls look references up,    *)
(* in any order and for any run.                                           *)
(***************************************************************************)
runVars == <<pc, inputData, sent, toolCalls, toolResults, timer, aborted, response,
             requests, receipt, result, error, writerCalls, appended>>

InitStore ==
  /\ imageUrlStorage = [r \in RunIds |-> NoEntry]
  /\ apiKey = TRUE
  /\ variant = "agent"
  /\ dirExists = FALSE
  /\ fileExists = FALSE
  /\ ledger = <<>>
  /\ InitRuns
  /\ InitCsvIdle
  /\ InitStoreIdle

\* receipt-ocr-tool.ts lines 7-10, as called at route.ts 36, 122, 259 and
\* kakeibo-workflow.ts 49
SetImageUrl(r, ref) ==
  /\ stOps < MaxStoreOps
  /\ imageUrlStorage' = setImageUrlForRun(imageUrlStorage, r, ref)
  /\ stOp' = [op |-> "set", runId |-> r, arg |-> ref, hasRunId |-> TRUE,
               value |-> ref, found |-> FALSE, before |-> imageUrlStorage[r]]
  /\ stSets' = [stSets EXCEPT ![r] = Append(@, ref)]
  /\ stOps' = stOps + 1
  /\ UNCHANGED <<envVars, fsVars, runVars, csvVars>>

\* receiptOcrTool.execute, lines 223-242: the reference a tool call of run r
\* goes on with; the call of analyzeReceipt that follows does not use the store
ResolveImageUrl(r, arg, hasRunId) ==
  /\ stOps < MaxStoreOps
  /\ LET res == resolveImageUrl(imageUrlStorage, r, hasRunId, arg) IN
       /\ imageUrlStorage' = res.storage
       /\ stOp' = [op |-> "resolve", runId |-> r, arg |-> arg, hasRunId |-> hasRunId,
                    value |-> res.imageUrl, found |-> res.found,
                    before |-> imageUrlStorage[r]]
  /\ stOps' = stOps + 1
  /\ UNCHANGED <<envVars, fsVars, runVars, csvVars, stSets>>

NextStore ==
  \/ \E r \in RunIds, ref \in Refs : SetImageUrl(r, ref)
  \/ \E r \in RunIds, arg \in Args, hasRunId \in BOOLEAN : ResolveImageUrl(r, arg, hasRunId)

SpecStore == InitStore /\ [][NextStore]_vars

(***************************************************************************)
(* Properties                                                              *)
(***************************************************************************)
\* r's step is a receiptOcrTool call that sent its request
ToolCallSent(r) == pc[r] = "agent" /\ pc'[r] = "fetch"

\* C1: a reference stored for a run is handed to at most one tool call.  A
\* consume on a stored reference obtains exactly that reference and deletes
\* the entry; the consume after it finds nothing; and in every tool call of
\* a run, a reference that did not come from the agent's argument is the
\* run's stored one and its entry is gone afterwards, while a call on an
\* absent entry goes on with the agent's argument and leaves the entry absent.
C1_ConsumeOnce ==
  [][\A r \in RunIds :
       /\ imageUrlStorage[r] \notin {NoEntry, ""} =>
            LET first == resolveImageUrl(imageUrlStorage, r, TRUE, "")
                second == resolveImageUrl(first.storage, r, TRUE, "")
            IN /\ first.found /\ first.imageUrl = imageUrlStorage[r]
               /\ first.storage[r] = NoEntry
               /\ ~second.found /\ second.imageUrl = "" /\ second.storage[r] = NoEntry
       /\ (ToolCallSent(r) /\ sent'[r] \notin Args) =>
            /\ sent'[r] = imageUrlStorage[r]
            /\ imageUrlStorage'[r] = NoEntry
       /\ (ToolCallSent(r) /\ imageUrlStorage[r] = NoEntry) =>
            /\ sent'[r] \in Args
            /\ imageUrlStorage'[r] = NoEntry
       /\ (imageUrlStorage[r] # NoEntry /\ imageUrlStorage'[r] = NoEntry) =>
            /\ pc[r] = "agent"
            /\ pc'[r] = "fetch" => sent'[r] = imageUrlStorage[r]
  ]_vars

\* a run consumed its stored reference in its first tool call, and its
\* second call, made with an empty argument, found nothing
C1_Witness ==
  \E r \in RunIds :
    /\ pc[r] = "fetch" /\ toolCalls[r] = 2 /\ sent[r] = ""
    /\ inputData[r].imageUrl = DataA
    /\ imageUrlStorage[r] = NoEntry

\* C2: in a process with an API key, a run whose image reference is empty
\* and that has no entry in the store fails at the resolve stage with
\* InvalidReferenceKind and sends no extraction request.
C2_EmptyReferenceFailsAtResolve ==
  [][\A r \in RunIds :
       LET begins ==
             \/ /\ variant = "direct" /\ pc[r] = "started" /\ pc'[r] # "started"
                /\ inputData[r].imageUrl = ""
             \/ /\ variant = "agent" /\ ToolCallSent(r) /\ sent'[r] = ""
       IN (apiKey /\ begins /\ imageUrlStorage[r] = NoEntry) =>
            /\ pc'[r] = "failed"
            /\ error'[r] = [stage |-> "resolve", kind |-> "InvalidReferenceKind"]
            /\ requests'[r] = requests[r]
  ]_vars

ExtractionFailed(r) == pc[r] = "failed" /\ error[r].stage \in {"resolve", "extract"}

\* C3: a run whose extraction failed has never invoked the writer and has
\* written nothing, the step in which it fails leaves the data directory and
\* the ledger as they are, and the writer is only ever invoked by a run whose
\* first step returned a receipt.
C3_NoWriteAfterFailedExtraction ==
  /\ [](\A r \in RunIds :
          error[r].stage \in {"resolve", "extract"} =>
            /\ pc[r] = "failed"
            /\ writerCalls[r] = 0 /\ appended[r] = <<>> /\ ~result[r].present)
  /\ [][\A r \in RunIds :
          /\ (~ExtractionFailed(r) /\ ExtractionFailed(r)') => UNCHANGED fsVars
          /\ writerCalls'[r] # writerCalls[r] =>
               receipt[r].present /\ error[r] = NoError
     ]_vars

\* one run failed on an unparsable answer while the other has written rows
C3_Witness ==
  \E r, q \in RunIds :
    /\ ExtractionFailed(r) /\ error[r].kind = "ParseError" /\ requests[r] > 0
    /\ q # r /\ appended[q] # <<>>

\* C4: the timer is armed only while the fetch is awaited; once it has fired
\* the call is aborted and the run's next step ends it as failed in the
\* extract stage with TimeoutError; a run that timed out never invokes the
\* writer.
C4_TimeoutAborts ==
  /\ [](\A r \in RunIds :
          /\ (timer[r] \/ aborted[r]) => pc[r] = "fetch"
          /\ error[r].kind = "TimeoutError" =>
               pc[r] = "failed" /\ writerCalls[r] = 0 /\ appended[r] = <<>>)
  /\ [][\A r \in RunIds :
          /\ (pc[r] = "fetch" /\ timer[r] /\ ~timer'[r] /\ pc'[r] = "fetch") => aborted'[r]
          /\ (aborted[r] /\ pc'[r] # pc[r]) =>
               /\ pc'[r] = "failed"
               /\ error'[r] = [stage |-> "extract", kind |-> "TimeoutError"]
     ]_vars

\* a run timed out
C4_Witness ==
  \E r \in RunIds : pc[r] = "failed" /\ error[r].kind = "TimeoutError" /\ requests[r] = 1

(***************************************************************************)
(* Reading rows back                                                       *)
(***************************************************************************)
\* the row begins with the date as written, followed by a comma
StartsWithDate(row, date) ==
  /\ Len(row) > Len(date) + 1
  /\ SubSeq(row, 1, Len(date)) = date
  /\ row[Len(date) + 1] = Comma

\* the field values of the row behind its date
FieldsAfterDate(row, date) == parseRow(SubSeq(row, Len(date) + 2, Len(row)))

\* the nine values expected behind the date for item i of rec; an absent or
\* empty category or payment method stands for its default
ExpectedFields(rec, i) ==
  << rec.storeName,
     IF rec.category \in {Undefined, <<>>} THEN <<"mibunrui">> ELSE rec.category,
     rec.items[i].name,
     <<ToString(rec.items[i].quantity)>>,
     <<ToString(rec.items[i].price)>>,
     <<ToString(rec.items[i].total)>>,
     <<ToString(rec.tax)>>,
     <<ToString(rec.total)>>,
     IF rec.paymentMethod \in {Undefined, <<>>} THEN <<"fumei">> ELSE rec.paymentMethod >>

\* a filesystem call of the invocation recorded in w did throw
FaultOccurred(w) ==
  \/ w.fault.op = "mkdir" /\ ~w.dirBefore
  \/ w.fault.op = "writeFile" /\ ~w.fileBefore
  \/ w.fault.op = "append"

\* C5: an invocation without filesystem failure on a receipt with N items
\* returns success with recordedCount = N and leaves the ledger as it was
\* (or as its header, if the file was absent) followed by exactly N rows, the
\* i-th of them being the row of item i.
C5_RowsPerItem ==
  (csvPc = "written" /\ ~FaultOccurred(csvRes)) =>
    LET n == Len(csvRec.items) IN
      /\ csvRes.result.success
      /\ csvRes.result.recordedCount = n
      /\ Len(csvRes.written) = n
      /\ ledger = (IF csvRes.fileBefore THEN csvRes.before ELSE <<csvHeader>>)
                    \o csvRes.written
      /\ \A i \in 1..n :
           /\ StartsWithDate(csvRes.written[i], csvRec.date)
           /\ FieldsAfterDate(csvRes.written[i], csvRec.date)[4] = <<ToString(i)>>

\* a second invocation appended the rows of two items behind earlier rows
C5_Witness ==
  /\ csvPc = "written" /\ csvWrites = 2 /\ ~FaultOccurred(csvRes)
  /\ Len(csvRec.items) = 2 /\ Len(csvRes.written) = 2
  /\ Len(csvRes.before) = 3 /\ Len(ledger) = 5

\* C6: every appended row, split by the quoting rules, yields exactly the ten
\* original values: date, store name, category, item name, quantity, unit
\* price, line total, tax, total and payment method.
C6_RowsParseBack ==
  csvPc = "written" =>
    \A i \in 1..Len(csvRes.written) :
      parseRow(csvRes.written[i]) = <<csvRec.date>> \o ExpectedFields(csvRec, i)

\* C7: unescaping the escaped text gives the text back.
C7_RoundTrip ==
  csvPc \in {"escaped", "written"} => unescapeCSV(csvOut) = csvIn

\* a text holding a comma, a quote and a newline was escaped
C7_Witness ==
  /\ csvPc = "escaped"
  /\ includes(csvIn, Comma) /\ includes(csvIn, Quote) /\ includes(csvIn, Newline)
  /\ csvOut # csvIn

\* C8: every invocation returns a result object and throws nothing; when a
\* directory creation, header write or row append failed, the result has
\* success = false, a failure message, an empty path and count 0.
C8_AlwaysResult ==
  csvPc = "written" =>
    /\ ~csvRes.thrown
    /\ csvRes.result.present
    /\ {"success", "message", "filePath", "recordedCount"} \subseteq DOMAIN csvRes.result
    /\ FaultOccurred(csvRes) =>
         /\ ~csvRes.result.success
         /\ Len(csvRes.result.message) = 2
         /\ csvRes.result.message[1] = "kiroku ni shippai shimashita: "
         /\ csvRes.result.message[2] = csvRes.fault.op
         /\ csvRes.result.filePath = ""
         /\ csvRes.result.recordedCount = 0

\* the append of the second row failed and a failure result came back
C8_Witness ==
  /\ csvPc = "written"
  /\ csvRes.fault = [op |-> "append", k |-> 2]
  /\ ~csvRes.result.success /\ Len(csvRes.written) = 1

ExampleRow ==
  <<"2025-10-28T12:00:00", Comma, "Corner Store", Comma, "groceries", Comma, "Milk",
    Comma, "1", Comma, "150", Comma, "150", Comma, "15", Comma, "165", Comma, "fumei",
    Newline>>

\* C9: each row a run appends is the date, a comma, and then the store name,
\* category, item name, quantity, unit price, line total, tax, total and
\* payment method in that order, comma-separated and ended by a newline; the
\* category is the one the run was started with, or the default if none; and
\* the Corner Store receipt with category groceries is recorded as ExampleRow.
C9_RowLayout ==
  [][\A r \in RunIds :
       /\ writerCalls'[r] = writerCalls[r] + 1 =>
            LET rec == receipt[r] rows == appended'[r] IN
              /\ \A i \in 1..Len(rows) :
                   /\ StartsWithDate(rows[i], rec.date)
                   /\ FieldsAfterDate(rows[i], rec.date) = ExpectedFields(rec, i)
                   /\ rows[i][Len(rows[i])] = Newline
              /\ (rec.storeName = <<"Corner Store">> /\ rec.category = <<"groceries">>
                    /\ result'[r].success) => rows = <<ExampleRow>>
       /\ (pc[r] # "extracted" /\ pc'[r] = "extracted") =>
            receipt'[r].category = inputData[r].category
  ]_vars

\* a run has recorded the example receipt
C9_Witness ==
  \E r \in RunIds : pc[r] = "recorded" /\ appended[r] = <<ExampleRow>>

\* the state of the run in the run state machine
Stage(r) ==
  CASE pc[r] \in {"created", "started"} -> "Created"
    [] pc[r] = "agent" /\ toolCalls[r] = 0 -> "Created"
    [] pc[r] = "agent" /\ toolCalls[r] > 0 -> "ImageResolved"
    [] pc[r] \in {"fetch", "body"} -> "ImageResolved"
    [] pc[r] = "extracted" -> "Extracted"
    [] pc[r] = "recorded" -> "Recorded"
    [] pc[r] = "failed" -> "Failed"

Moves ==
  {<<"Created", "ImageResolved">>, <<"ImageResolved", "Extracted">>,
   <<"Extracted", "Recorded">>}
    \cup {<<"Created", "Failed">>, <<"ImageResolved", "Failed">>, <<"Extracted", "Failed">>}

\* C10: a run changes state only along Created -> ImageResolved -> Extracted
\* -> Recorded or from one of the first three to Failed; it is Failed exactly
\* when a failure with stage resolve, extract or record is recorded for it,
\* the stage being record exactly for a failure out of Extracted; nothing of
\* a Recorded or Failed run changes; and the writer is invoked only by a run
\* in Extracted.
C10_StateMachine ==
  /\ [](\A r \in RunIds :
          /\ Stage(r) = "Failed" <=> error[r] # NoError
          /\ error[r] # NoError => error[r].stage \in {"resolve", "extract", "record"})
  /\ [][\A r \in RunIds :
          /\ Stage(r)' # Stage(r) => <<Stage(r), Stage(r)'>> \in Moves
          /\ (Stage(r) # "Failed" /\ Stage(r)' = "Failed") =>
               (error'[r].stage = "record" <=> Stage(r) = "Extracted")
          /\ Stage(r) \in {"Recorded", "Failed"} =>
               UNCHANGED <<pc[r], error[r], result[r], appended[r], writerCalls[r],
                           requests[r], receipt[r], inputData[r], toolCalls[r]>>
          /\ writerCalls'[r] # writerCalls[r] => Stage(r) = "Extracted"
     ]_vars

\* one run is Recorded and the other one Failed in the record stage
C10_Witness ==
  \E r, q \in RunIds :
    /\ Stage(r) = "Recorded" /\ requests[r] = 1
    /\ Stage(q) = "Failed" /\ error[q].stage = "record"

(***************************************************************************)
(* The writer's result in the run's result                                 *)
(***************************************************************************)
\* the receipt the writer of run r is invoked with
WriterInput(r) == IF variant = "agent" THEN messageRecord(receipt[r]) ELSE receipt[r]

\* the four fields of a result object
Fields(res) == <<res.success, res.message, res.filePath, res.recordedCount>>

\* C11: when the writer invoked by a run returns success = false, the run's
\* result carries the writer's success, message, filePath and recordedCount
\* unchanged (success false, the failure message naming the failed call, an
\* empty path, count 0), and nothing is rolled back: what the invocation wrote
\* stays in the ledger behind the earlier content, and the run's extraction
\* request count and the store are as before.
C11_FailureVerbatim ==
  /\ [](\A r \in RunIds :
          (result[r].present /\ ~result[r].success) =>
            /\ Len(result[r].message) = 2
            /\ result[r].message[1] = "kiroku ni shippai shimashita: "
            /\ result[r].message[2] \in {"mkdir", "writeFile", "append"}
            /\ result[r].filePath = "" /\ result[r].recordedCount = 0
            /\ requests[r] >= 1)
  /\ [][\A r \in RunIds :
          (writerCalls'[r] = writerCalls[r] + 1 /\ ~result'[r].success) =>
            \E fault \in FaultsFor(Len(receipt[r].items)) :
              LET w == recordToSpreadsheet(WriterInput(r), dirExists, fileExists,
                                           ledger, fault)
              IN /\ ~w.result.success
                 /\ Fields(result'[r]) = Fields(w.result)
                 /\ ledger' = w.ledger
                 /\ Len(ledger') >= Len(ledger)
                 /\ SubSeq(ledger', 1, Len(ledger)) = ledger
                 /\ appended'[r] = appended[r] \o w.written
                 /\ requests'[r] = requests[r]
                 /\ imageUrlStorage' = imageUrlStorage
     ]_vars

\* a run of the agent workflow extracted a receipt, its writer created the
\* ledger with its header and then failed on the append, and the run's result
\* is that failure
C11_Witness ==
  \E r \in RunIds :
    /\ variant = "agent" /\ error[r].stage = "record" /\ requests[r] = 1
    /\ result[r].present /\ ~result[r].success /\ result[r].message[2] = "append"
    /\ ledger = <<csvHeader>>

(***************************************************************************)
(* The run correlation store under concurrent runs                         *)
(***************************************************************************)
\* the step taken is a step of run r
StepOf(r) == pc'[r] # pc[r] \/ timer'[r] # timer[r]

\* C12: every step is a step of one run, and a step of run r leaves the
\* entry of every other run q as it is (present or absent, and its value);
\* an entry of q holds the reference q's workflow step stored last, and the
\* reference a tool call of q takes from the store is that reference.
C12_RunsIsolated ==
  /\ [](\A q \in RunIds :
          (pc[q] = "agent" /\ imageUrlStorage[q] # NoEntry) =>
            imageUrlStorage[q] = inputData[q].imageUrl)
  /\ [][\A r, q \in RunIds :
          r # q =>
            /\ ~(StepOf(r) /\ StepOf(q))
            /\ StepOf(r) => imageUrlStorage'[q] = imageUrlStorage[q]
            /\ (ToolCallSent(q) /\ sent'[q] \notin Args) =>
                 /\ sent'[q] = inputData[q].imageUrl
                 /\ imageUrlStorage'[r] = imageUrlStorage[r]
     ]_vars

\* two concurrent runs with different images have each consumed their own
C12_Witness ==
  /\ pc["r1"] = "fetch" /\ sent["r1"] = DataA /\ toolCalls["r1"] = 1
  /\ pc["r2"] = "fetch" /\ sent["r2"] = HttpUrl /\ toolCalls["r2"] = 1
  /\ imageUrlStorage = [r \in RunIds |-> NoEntry]

\* the reference the last setImageUrlForRun call for run r stored
LastSet(r) == IF stSets[r] = <<>> THEN NoEntry ELSE stSets[r][Len(stSets[r])]

\* the last call was a tool call with an empty argument that knew its run
Consumed == stOp.op = "resolve" /\ stOp.arg = "" /\ stOp.hasRunId

\* C13: after any sequence of set calls and tool calls, in any order, an
\* entry present for a run holds the reference of the last set call for that
\* run; a set call leaves its reference in the entry whatever was there; and
\* a tool call consuming from an entry goes on with the reference set last.
C13_LastWriteWins ==
  /\ [](\A r \in RunIds : imageUrlStorage[r] # NoEntry => imageUrlStorage[r] = LastSet(r))
  /\ [](stOp.op = "set" => imageUrlStorage[stOp.runId] = stOp.value)
  /\ []((Consumed /\ stOp.before # NoEntry) =>
          stOp.value = stOp.before /\ stOp.value = LastSet(stOp.runId))

\* two set calls stored different references for one run, and the tool call
\* after them obtained the second
C13_Witness ==
  \E r \in RunIds :
    /\ stSets[r] = <<DataA, HttpUrl>>
    /\ Consumed /\ stOp.runId = r /\ stOp.found /\ stOp.value = HttpUrl

(***************************************************************************)
(* Parsing the model's answer                                              *)
(***************************************************************************)
RequiredKeys == {"storeName", "date", "items", "subtotal", "tax", "total"}

\* the body of a successful response whose content is not parsable JSON
Unparsable(body) == body.kind \in {"text", "contentNotJson"}

\* the body of a successful response whose content is a JSON object lacking
\* a required key
Incomplete(body) == body.kind = "json" /\ ~(RequiredKeys \subseteq body.payload.keys)

\* the step ends run r's extraction with ParseError and without a record
EndsInParseError(r) ==
  /\ pc'[r] = "failed"
  /\ error'[r] = [stage |-> "extract", kind |-> "ParseError"]
  /\ receipt'[r] = receipt[r] /\ ~receipt'[r].present
  /\ toolResults'[r] = <<>>

\* the record the step's extraction call of run r returned
Returned(r) ==
  IF variant = "agent" THEN toolResults'[r][Len(toolResults'[r])] ELSE receipt'[r]

AttemptFailures == {"TimeoutError", "UpstreamError", "ParseError"}

HeaderRows(led) == {i \in 1..Len(led) : led[i] = csvHeader}

\* C16: after any sequence of invocations, with any number of items and
\* with or without filesystem failures, the ledger file exists exactly when
\* it has content, and if it exists its first row is the header and the
\* header occurs exactly once; an invocation that finds the file writes
\* nothing before its rows, and one that does not find it writes the header
\* first.
C16_HeaderOnce ==
  /\ fileExists <=> ledger # <<>>
  /\ fileExists => (ledger[1] = csvHeader /\ HeaderRows(ledger) = {1})
  /\ csvPc = "written" =>
       /\ csvRes.fileBefore => ledger = csvRes.before \o csvRes.written
       /\ (~csvRes.fileBefore /\ fileExists) => ledger = <<csvHeader>> \o csvRes.written
       /\ \A i \in 1..Len(csvRes.written) : csvRes.written[i] # csvHeader

\* a second invocation, with no items, found the ledger holding its header
\* and left it so
C16_Witness ==
  /\ csvPc = "written" /\ csvWrites = 2 /\ Len(csvRec.items) = 0
  /\ csvRes.fileBefore /\ csvRes.before = <<csvHeader>> /\ csvRes.result.success
  /\ ledger = <<csvHeader>>

\* led is the beginning of led2
IsPrefix(led, led2) == Len(led2) >= Len(led) /\ SubSeq(led2, 1, Len(led)) = led

\* C17: in every step of any interleaving of runs, the content the ledger
\* had before the step is the beginning of its content after it, whether the
\* writer invoked in the step succeeds or fails; the directory and the file
\* never disappear; and only a writer invocation changes the ledger, by
\* adding the header to an absent file and the invoking run's rows at the end.
C17_AppendOnly ==
  [][/\ IsPrefix(ledger, ledger')
     /\ dirExists => dirExists'
     /\ fileExists => fileExists'
     /\ ledger' # ledger =>
          \E r \in RunIds :
            /\ writerCalls'[r] = writerCalls[r] + 1
            /\ LET base == IF fileExists THEN ledger ELSE <<csvHeader>>
                   rows == SubSeq(ledger', Len(base) + 1, Len(ledger'))
               IN /\ IsPrefix(base, ledger')
                  /\ appended'[r] = appended[r] \o rows
                  /\ \A i \in 1..Len(rows) : StartsWithDate(rows[i], receipt[r].date)
  ]_vars

\* after one run appended its row, the writer of the other run failed and
\* the ledger still holds the header and that row
C17_Witness ==
  \E r, q \in RunIds :
    /\ r # q /\ pc[r] = "recorded" /\ Len(appended[r]) = 1
    /\ pc[q] = "failed" /\ error[q].stage = "record" /\ writerCalls[q] = 1
    /\ result[q].message[2] = "append"
    /\ ledger = <<csvHeader>> \o appended[r]

\* how often row x occurs in rows
Count(x, rows) == Cardinality({i \in 1..Len(rows) : rows[i] = x})

RECURSIVE SumOver(_, _)
SumOver(f, S) ==
  IF S = {} THEN 0
  ELSE LET r == CHOOSE r \in S : TRUE IN f[r] + SumOver(f, S \ {r})

\* the data rows of the ledger
DataRows(led) == IF led = <<>> THEN <<>> ELSE Tail(led)

\* row is one complete row: ten fields, ended by its only line break
CompleteRow(row) ==
  /\ Len(parseRow(row)) = 10
  /\ row[Len(row)] = Newline
  /\ \A i \in 1..(Len(row) - 1) : row[i] # Newline

\* C18: whatever the order in which concurrent runs append, every row of the
\* ledger behind the header is one complete row, and each row occurs in the
\* ledger exactly as often as the runs appended it: none is lost, none is
\* duplicated, none is mixed with another.
C18_RowsIntact ==
  LET rows == DataRows(ledger) IN
    /\ Len(rows) = SumOver([r \in RunIds |-> Len(appended[r])], RunIds)
    /\ \A i \in 1..Len(rows) :
         /\ CompleteRow(rows[i])
         /\ Count(rows[i], rows) =
              SumOver([r \in RunIds |-> Count(rows[i], appended[r])], RunIds)
    /\ \A r \in RunIds : \A i \in 1..Len(appended[r]) : Count(appended[r][i], rows) >= 1

\* two runs each appended a row, and the rows differ
C18_Witness ==
  /\ \A r \in RunIds : pc[r] = "recorded" /\ Len(appended[r]) = 1
  /\ appended["r1"] # appended["r2"]
  /\ Len(ledger) = 3 /\ ledger[2] = appended["r2"][1] /\ ledger[3] = appended["r1"][1]

Ended(r) == pc[r] \in {"recorded", "failed"}

\* C20: a tool call given a non-empty image reference sends that reference
\* and leaves every entry of the store as it was, the entry of its own run
\* included; and no step changes the entry of a run that has ended, so the
\* entry stays in the store.
C20_DirectReferenceKeepsStore ==
  [][\A r \in RunIds :
       /\ (ToolCallSent(r) /\ sent'[r] \in Args \ {""}) =>
            imageUrlStorage' = imageUrlStorage
       /\ (ToolCallSent(r) /\ sent'[r] \notin Args) =>
            imageUrlStorage'[r] # imageUrlStorage[r]
       /\ Ended(r) => imageUrlStorage'[r] = imageUrlStorage[r]
  ]_vars

\* a run whose agent passed its own reference has recorded its receipt and
\* the reference stored for the run is still in the store
C20_Witness ==
  \E r \in RunIds :
    /\ variant = "agent" /\ pc[r] = "recorded" /\ requests[r] = 1
    /\ imageUrlStorage[r] = DataA

(***************************************************************************)
(* A failure in the middle of a receipt                                    *)
(***************************************************************************)
\* the rows the recorded invocation added to the ledger
RowsAdded == Len(ledger) - Len(IF csvRes.fileBefore THEN csvRes.before ELSE <<csvHeader>>)

\* C21: when the append of row k+1 fails after k >= 1 rows of the receipt
\* were appended, the result has success = false, recordedCount = 0 and an
\* empty filePath, and the k rows, those of the first k items, are in the
\* ledger behind its earlier content; a successful invocation reports as
\* recordedCount the number of rows it added, so the count differs from the
\* rows added exactly in the failures that left rows behind.
C21_PartialRowsRemain ==
  csvPc = "written" =>
    /\ (csvRes.fault.op = "append" /\ csvRes.fault.k >= 2) =>
         LET k == csvRes.fault.k - 1 IN
           /\ ~csvRes.result.success
           /\ csvRes.result.recordedCount = 0
           /\ csvRes.result.filePath = ""
           /\ Len(csvRes.written) = k /\ RowsAdded = k
           /\ ledger = (IF csvRes.fileBefore THEN csvRes.before ELSE <<csvHeader>>)
                          \o csvRes.written
           /\ \A i \in 1..k :
                FieldsAfterDate(csvRes.written[i], csvRec.date)[4] = <<ToString(i)>>
    /\ csvRes.result.success => csvRes.result.recordedCount = RowsAdded
    /\ (fileExists /\ csvRes.result.recordedCount # RowsAdded) =>
         ~csvRes.result.success /\ csvRes.fault.op = "append" /\ csvRes.fault.k >= 2

\* a second invocation failed on its second row behind the two rows of the
\* first, leaving three data rows and reporting none
C21_Witness ==
  /\ csvPc = "written" /\ csvWrites = 2
  /\ csvRes.fault = [op |-> "append", k |-> 2]
  /\ Len(csvRes.before) = 3 /\ Len(ledger) = 4
  /\ csvRes.result.recordedCount = 0 /\ csvRes.result.filePath = ""

(***************************************************************************)
(* Progress of a run                                                       *)
(***************************************************************************)
\* the steps the awaited agent.generate of the first step takes
AgentSteps(r) ==
  \/ \E arg \in Args, hasRunId \in BOOLEAN : receiptOcrTool(r, arg, hasRunId)
  \/ AgentReturns(r)

\* the fetch promise of an aborted call rejects
AbortRejects(r) == aborted[r] /\ FetchRejects(r)

\* the second step, whose filesystem calls are synchronous
WriterSteps(r) ==
  \/ \E callsTool \in BOOLEAN :
       \E fault \in FaultsFor(Len(receipt[r].items)) : runCsvWriterAgent(r, callsTool, fault)
  \/ \E fault \in FaultsFor(Len(receipt[r].items)) : recordToSpreadsheetStep(r, fault)

\* What the runtime guarantees, and the agents granted to answer: a started
\* step runs, an armed timer fires unless it is cleared, an aborted fetch
\* rejects, local filesystem calls return.  Nothing makes the network
\* deliver: neither the response (FetchResolves, FetchRejects of a call not
\* aborted) nor its body (ReadBody).
Fairness ==
  \A r \in RunIds :
    /\ WF_vars(runReceiptOcrAgent(r))
    /\ WF_vars(extractReceiptInfo(r))
    /\ WF_vars(AgentSteps(r))
    /\ WF_vars(TimerFires(r))
    /\ WF_vars(AbortRejects(r))
    /\ WF_vars(WriterSteps(r))

SpecLive == Init /\ [][Next]_vars /\ Fairness

\* C22: given that the timer fires and filesystem calls return, every
\* started run eventually is recorded or failed.
C22_EventuallyTerminal ==
  \A r \in RunIds : (pc[r] = "started") ~> Ended(r)

====
